---- MODULE Spec2Model ----
(***************************************************************************)
(* Model of bookie_server/blueprints/bookmark_manager/models.py: the       *)
(* Bookmark and Tag entities, their many-to-many association table, the    *)
(* construction / property-setter / dump code, and the ORM session that    *)
(* persists, reloads and deletes them according to the column and          *)
(* relationship declarations of the two classes.                           *)
(***************************************************************************)
EXTENDS Integers, Sequences, FiniteSets, TLC

VARIABLES
    clock,          \* wall clock, in hours since 2021-01-01T00:00:00+00:00
    defaults,       \* default argument values of Bookmark.__init__ (evaluated at def time)
    fk_enforced,    \* whether the database engine enforces the ForeignKey declarations
    bookmark_obj,   \* Python Bookmark objects, by object slot
    tag_obj,        \* Python Tag objects, by object slot
    bookmark,       \* table bookmark: id -> row
    tag,            \* table tag: id -> row
    bookmark_and_bookmark_tag_association,  \* association table: <<bookmark_id, tag_id>> -> number of rows
    next_id,        \* autoincrement counters of the two primary keys
    out             \* outcome of the last operation: what was called, what it returned or raised

vars == <<clock, defaults, fk_enforced, bookmark_obj, tag_obj, bookmark, tag,
          bookmark_and_bookmark_tag_association, next_id, out>>

(***************************************************************************)
(* Bounds                                                                  *)
(***************************************************************************)
MaxClock == 1       \* the clock advances at most this many hours
MaxBookmarkId == 2  \* rows table bookmark ever receives (autoincrement ceiling)
MaxTagId == 2       \* rows table tag ever receives (autoincrement ceiling)
MaxTags == 2        \* longest tags or bookmarks collection built in memory
MaxRows == 2        \* association rows the table holds for one (bookmark_id, tag_id) pair

BookmarkSlots == {1}
TagSlots == {1, 2}
Titles == {"t", "title"}
Urls == {"u"}
Notes == {"", "n"}
Names == {"work", "home"}

(***************************************************************************)
(* Values                                                                  *)
(***************************************************************************)
None == [none |-> TRUE]
Absent == [absent |-> TRUE]     \* an object slot holding no object
Default == [default |-> TRUE]   \* an argument the caller did not pass

\* An ISO-8601 string "2021-01-<1+date>T<hour>:00:00<sign><off>:00", by its fields.
IsoString(date, hour, sign, off) == [date |-> date, hour |-> hour, sign |-> sign, off |-> off]

\* The timestamp strings callers pass.  The first two name the same instant;
\* the third crosses midnight backwards, the fourth forwards.
ModifiedInputs == {IsoString(0, 5, "+", 0), IsoString(1, 1, "+", 3)}

IsoInputs ==
    { IsoString(0, 0, "-", 5),
      IsoString(0, 5, "+", 0),
      IsoString(1, 1, "+", 3),
      IsoString(0, 22, "-", 5) }

\* An aware datetime: local date and hour, and the UTC offset of its tzinfo.
DateTime(d, h, tz) == [d |-> d, h |-> h, tz |-> tz]

\* The instant a datetime names, in hours since the epoch of the clock.
Instant(dt) == dt.d * 24 + dt.h - dt.tz

\* datetime.now(tzutc())
now == DateTime(clock \div 24, clock % 24, 0)

\* datetime.isoformat()
isoformat(dt) ==
    IsoString(dt.d, dt.h, IF dt.tz < 0 THEN "-" ELSE "+", IF dt.tz < 0 THEN -dt.tz ELSE dt.tz)

\* datetime.astimezone(tzutc()): the same instant, expressed at offset zero
astimezone_tzutc(dt) ==
    DateTime(Instant(dt) \div 24, Instant(dt) % 24, 0)

\* utils.datetime_utils.parse_iso8601: an aware datetime carrying the string's offset
parse_iso8601(s) ==
    DateTime(s.date, s.hour, IF s.sign = "-" THEN -s.off ELSE s.off)

\* Values of a dumped mapping, tagged with their Python type.
Null == [t |-> "null", v |-> 0]
IntV(n) == [t |-> "int", v |-> n]
StrV(s) == [t |-> "str", v |-> s]
IsoV(s) == [t |-> "iso", v |-> s]
ListV(l) == [t |-> "list", v |-> l]
DictV(m) == [t |-> "dict", v |-> m]

\* Python truthiness of a dumped value (isoformat strings and mappings with keys are never empty)
Falsy(x) ==
    \/ x.t = "null"
    \/ x.t = "int" /\ x.v = 0
    \/ x.t = "str" /\ x.v = ""
    \/ x.t = "list" /\ x.v = <<>>

\* utils.utils.filter_dict(dict, *keys): drop the listed keys whose value is falsy
filter_dict(d, keys) ==
    [k \in {k \in DOMAIN d : ~(k \in keys /\ Falsy(d[k]))} |-> d[k]]

\* Column id of an object: None until the row is inserted
IdValue(id) == IF id = 0 THEN Null ELSE IntV(id)

(***************************************************************************)
(* Bookmark: properties and dump                                           *)
(***************************************************************************)
\* Bookmark.modified (getter)
modified(b) == astimezone_tzutc(b._modified)

\* Bookmark.created (getter)
created(b) == astimezone_tzutc(b._created)

\* Tag.dump
Tag_dump(t) ==
    filter_dict([id |-> IdValue(t.id),
                 name |-> StrV(t.name),
                 bookmarks |-> ListV(t.bookmarks)],
                {})

\* Bookmark.dump; raises when the modified getter has no datetime to convert
Bookmark_dump_raises(b) == b._modified = None

dump_timestamp_local(dt) == isoformat(dt)

\* <datetime>.astimezone(tzutc()).isoformat(), as dump renders modified and created
dump_timestamp(dt) == isoformat(astimezone_tzutc(dt))

Bookmark_dump_keys_tags_only == {"tags"}

\* The keys Bookmark.dump hands to filter_dict
Bookmark_dump_keys == {"tags", "notes"}

Bookmark_dump(b) ==
    filter_dict([id |-> IdValue(b.id),
                 title |-> StrV(b.title),
                 url |-> StrV(b.url),
                 notes |-> StrV(b.notes),
                 modified |-> IsoV(dump_timestamp(modified(b))),
                 created |-> IF b._created # None
                             THEN IsoV(dump_timestamp(b._created))
                             ELSE Null,
                 tags |-> ListV([i \in DOMAIN b.tags |-> DictV(Tag_dump(tag_obj[b.tags[i]]))])],
                Bookmark_dump_keys)

(***************************************************************************)
(* Python objects                                                          *)
(***************************************************************************)
Range(f) == {f[i] : i \in DOMAIN f}

Count(f, x) == Cardinality({i \in DOMAIN f : f[i] = x})

LiveBookmarks == {h \in BookmarkSlots : bookmark_obj[h] # Absent}
LiveTags == {h \in TagSlots : tag_obj[h] # Absent}

\* Lists of live tag objects of at most n elements, repetitions included
TagLists(n) == UNION {[1..k -> LiveTags] : k \in 0..n}

\* The outcome record of an operation
Outcome(op, kind, h, err, ret) == [op |-> op, kind |-> kind, h |-> h, err |-> err, ret |-> ret]

\* back_populates: b is appended to the bookmarks collection of every tag put in b.tags
Backref(h, tags) ==
    [s \in TagSlots |->
        IF s \in Range(tags)
        THEN [tag_obj[s] EXCEPT !.bookmarks =
                 @ \o [i \in 1..Count(tags, s) |-> h]]
        ELSE tag_obj[s]]

init_created_or_default(created_) ==
    parse_iso8601(IF created_ = None THEN defaults.created ELSE created_)

\* self._created = parse_iso8601(created) if created is not None else None
init_created(created_) ==
    IF created_ # None THEN parse_iso8601(created_) ELSE None

\* Bookmark.__init__; arguments not passed take the values computed when the def ran.
\* parse_iso8601(None) raises, so no object is built from modified=None.
Bookmark(h, title, url, notes, modified_arg, created_arg, tags_arg) ==
    LET modified_ == IF modified_arg = Default THEN defaults.modified ELSE modified_arg
        created_ == IF created_arg = Default THEN defaults.created ELSE created_arg
        tags_ == tags_arg   \* the default [] is copied into the collection like any list
    IN  /\ bookmark_obj[h] = Absent
        /\ \A g \in BookmarkSlots : g < h => bookmark_obj[g] # Absent
        /\ \A s \in Range(tags_) : Len(tag_obj[s].bookmarks) + Count(tags_, s) <= MaxTags
        /\ IF modified_ = None
           THEN /\ out' = Outcome("Bookmark", "bookmark", h, "TypeError",
                                  [title |-> title, url |-> url,
                                   modified |-> modified_arg, created |-> created_arg])
                /\ UNCHANGED <<bookmark_obj, tag_obj>>
           ELSE /\ bookmark_obj' =
                       [bookmark_obj EXCEPT ![h] =
                           [id |-> 0,
                            title |-> title,
                            url |-> url,
                            notes |-> notes,
                            tags |-> tags_,
                            _modified |-> parse_iso8601(modified_),
                            _created |-> init_created(created_)]]
                /\ tag_obj' = Backref(h, tags_)
                /\ out' = Outcome("Bookmark", "bookmark", h, "",
                                  [title |-> title, url |-> url,
                                   modified |-> modified_arg, created |-> created_arg])
        /\ UNCHANGED <<clock, defaults, fk_enforced, bookmark, tag,
                       bookmark_and_bookmark_tag_association, next_id>>

\* Tag.__init__ (its self.tags = [] sets a plain attribute that no relationship reads)
Tag(h, name) ==
    /\ tag_obj[h] = Absent
    /\ \A g \in TagSlots : g < h => tag_obj[g] # Absent
    /\ tag_obj' = [tag_obj EXCEPT ![h] = [id |-> 0, name |-> name, bookmarks |-> <<>>]]
    /\ out' = Outcome("Tag", "tag", h, "", <<>>)
    /\ UNCHANGED <<clock, defaults, fk_enforced, bookmark_obj, bookmark, tag,
                   bookmark_and_bookmark_tag_association, next_id>>

\* bookmark.tags.append(tag): the relationship is a plain list, and back_populates
\* appends the bookmark to tag.bookmarks
tags_append(h, s) ==
    /\ bookmark_obj[h] # Absent
    /\ tag_obj[s] # Absent
    /\ Len(bookmark_obj[h].tags) < MaxTags
    /\ Len(tag_obj[s].bookmarks) < MaxTags
    /\ bookmark_obj' = [bookmark_obj EXCEPT ![h].tags = Append(@, s)]
    /\ tag_obj' = Backref(h, <<s>>)
    /\ out' = Outcome("tags.append", "bookmark", h, "", <<>>)
    /\ UNCHANGED <<clock, defaults, fk_enforced, bookmark, tag,
                   bookmark_and_bookmark_tag_association, next_id>>

\* Bookmark.created (setter)
created_setter(h, iso8601_timestamp) ==
    /\ bookmark_obj[h] # Absent
    /\ bookmark_obj' = [bookmark_obj EXCEPT ![h]._created = parse_iso8601(iso8601_timestamp)]
    /\ out' = Outcome("created.setter", "bookmark", h, "", iso8601_timestamp)
    /\ UNCHANGED <<clock, defaults, fk_enforced, tag_obj, bookmark, tag,
                   bookmark_and_bookmark_tag_association, next_id>>

\* Bookmark.modified (setter)
modified_setter(h, iso8601_timestamp) ==
    /\ bookmark_obj[h] # Absent
    /\ bookmark_obj' = [bookmark_obj EXCEPT ![h]._modified = parse_iso8601(iso8601_timestamp)]
    /\ out' = Outcome("modified.setter", "bookmark", h, "", iso8601_timestamp)
    /\ UNCHANGED <<clock, defaults, fk_enforced, tag_obj, bookmark, tag,
                   bookmark_and_bookmark_tag_association, next_id>>

\* A call of Bookmark.dump
DumpBookmark(h) ==
    /\ bookmark_obj[h] # Absent
    /\ out' = IF Bookmark_dump_raises(bookmark_obj[h])
              THEN Outcome("dump", "bookmark", h, "AttributeError", <<>>)
              ELSE Outcome("dump", "bookmark", h, "", Bookmark_dump(bookmark_obj[h]))
    /\ UNCHANGED <<clock, defaults, fk_enforced, bookmark_obj, tag_obj, bookmark, tag,
                   bookmark_and_bookmark_tag_association, next_id>>

\* A call of Tag.dump
DumpTag(h) ==
    /\ tag_obj[h] # Absent
    /\ out' = Outcome("dump", "tag", h, "", Tag_dump(tag_obj[h]))
    /\ UNCHANGED <<clock, defaults, fk_enforced, bookmark_obj, tag_obj, bookmark, tag,
                   bookmark_and_bookmark_tag_association, next_id>>

\* Time passes
Tick ==
    /\ clock < MaxClock
    /\ clock' = clock + 1
    /\ out' = Outcome("tick", "", 0, "", <<>>)
    /\ UNCHANGED <<defaults, fk_enforced, bookmark_obj, tag_obj, bookmark, tag,
                   bookmark_and_bookmark_tag_association, next_id>>

(***************************************************************************)
(* The store: the session's unit of work over the three tables             *)
(***************************************************************************)
BookmarkIds == 1..MaxBookmarkId
TagIds == 1..MaxTagId

PersistentBookmarks == {h \in LiveBookmarks : bookmark_obj[h].id # 0}
PersistentTags == {s \in LiveTags : tag_obj[s].id # 0}

RECURSIVE SortedSeq(_)
SortedSeq(S) ==
    IF S = {} THEN <<>>
    ELSE LET m == CHOOSE x \in S : \A y \in S : x <= y
         IN  <<m>> \o SortedSeq(S \ {m})

\* Bookmark.tags, lazy='joined': the tags joined through the association table,
\* each Tag object once however many association rows name it
JoinedTags(bid, tag_rows, assoc_rows, slot_of) ==
    LET ids == SortedSeq({tid \in DOMAIN tag_rows : assoc_rows[<<bid, tid>>] > 0})
    IN  [i \in DOMAIN ids |-> slot_of[ids[i]]]

\* Tag.bookmarks, lazy='noload': never loaded, the collection of a loaded Tag is empty
NoloadBookmarks(tid, bookmark_rows, assoc_rows, slot_of) == <<>>

TagSlotOf == [id \in {tag_obj[s].id : s \in PersistentTags} |->
                 CHOOSE s \in PersistentTags : tag_obj[s].id = id]
BookmarkSlotOf == [id \in {bookmark_obj[h].id : h \in PersistentBookmarks} |->
                      CHOOSE h \in PersistentBookmarks : bookmark_obj[h].id = id]

\* The tags a bookmark holds that the session has not written yet: all of them for a
\* new object, those appended since it was loaded for a persistent one
AddedTags(h) ==
    LET b == bookmark_obj[h]
        loaded == JoinedTags(b.id, tag, bookmark_and_bookmark_tag_association, TagSlotOf)
    IN  IF b.id = 0 THEN b.tags ELSE SubSeq(b.tags, Len(loaded) + 1, Len(b.tags))

\* The bookmarks a tag holds that the session has not written yet
AddedBookmarks(s) ==
    LET t == tag_obj[s]
        loaded == NoloadBookmarks(t.id, bookmark, bookmark_and_bookmark_tag_association,
                                  BookmarkSlotOf)
    IN  IF t.id = 0 THEN t.bookmarks ELSE SubSeq(t.bookmarks, Len(loaded) + 1, Len(t.bookmarks))

\* Two objects one of whose collections holds the other
Linked(h, s) ==
    \/ s \in Range(bookmark_obj[h].tags)
    \/ h \in Range(tag_obj[s].bookmarks)

\* save-update cascade along both relationships
RECURSIVE Cascade(_, _)
Cascade(SB, ST) ==
    LET nb == SB \cup {h \in LiveBookmarks : \E s \in ST : Linked(h, s)}
        nt == ST \cup {s \in LiveTags : \E h \in SB : Linked(h, s)}
    IN  IF nb = SB /\ nt = ST THEN [b |-> SB, t |-> ST] ELSE Cascade(nb, nt)

\* nullable=False on Bookmark._modified and Bookmark._created
\* (title, url, notes and Tag.name always hold a string here)
NotNullOk(h) ==
    /\ bookmark_obj[h]._modified # None
    /\ bookmark_obj[h]._created # None

UniqueOk_among_new_only(new_tags) ==
    \A s \in new_tags :
        \A r \in new_tags : r # s => tag_obj[r].name # tag_obj[s].name

\* unique=True on Tag.name, for the tags about to be inserted
UniqueOk(new_tags) ==
    \A s \in new_tags :
        /\ \A id \in DOMAIN tag : tag[id].name # tag_obj[s].name
        /\ \A r \in new_tags : r # s => tag_obj[r].name # tag_obj[s].name

\* ForeignKey('bookmark.id'), ForeignKey('tag.id'), where the engine enforces them
ForeignKeyOk(bookmark_rows, tag_rows, assoc_rows) ==
    \A p \in BookmarkIds \X TagIds :
        assoc_rows[p] > 0 => p[1] \in DOMAIN bookmark_rows /\ p[2] \in DOMAIN tag_rows

\* The row of table bookmark a Bookmark object is written to; TIMESTAMP(timezone=True)
\* keeps the instant, and an attribute that is None is written as NULL
BookmarkRow(b) ==
    [title |-> b.title, url |-> b.url, notes |-> b.notes,
     _modified |-> IF b._modified = None THEN None ELSE astimezone_tzutc(b._modified),
     _created |-> IF b._created = None THEN None ELSE astimezone_tzutc(b._created)]

\* The objects a commit flushes: those the session holds and what the cascade reaches
Session(addB, addT) == Cascade(PersistentBookmarks \cup addB, PersistentTags \cup addT)

\* The autoincrement counters stay within the rows the tables may receive
Fits(c) ==
    /\ next_id.bookmark + Cardinality({h \in c.b : bookmark_obj[h].id = 0}) <= MaxBookmarkId + 1
    /\ next_id.tag + Cardinality({s \in c.t : tag_obj[s].id = 0}) <= MaxTagId + 1

\* Primary keys after the flush: kept by a persistent object, drawn from the
\* autoincrement counter (in slot order) by a new one
FlushedIds(S, objs, counter) ==
    [h \in S |-> IF objs[h].id # 0 THEN objs[h].id
                 ELSE counter + Cardinality({g \in S : objs[g].id = 0 /\ g < h})]

\* The object slot holding each primary key
SlotOf(ids) == [id \in {ids[h] : h \in DOMAIN ids} |-> CHOOSE h \in DOMAIN ids : ids[h] = id]

\* Table bookmark after the flush
FlushedBookmark(slotB, delBid) ==
    [id \in (DOMAIN bookmark \ delBid) \cup DOMAIN slotB |->
        IF id \in DOMAIN slotB THEN BookmarkRow(bookmark_obj[slotB[id]]) ELSE bookmark[id]]

\* Table tag after the flush
FlushedTag(slotT, delTid) ==
    [id \in (DOMAIN tag \ delTid) \cup DOMAIN slotT |->
        IF id \in DOMAIN slotT THEN [name |-> tag_obj[slotT[id]].name] ELSE tag[id]]

\* Association rows the flush inserts for a pair of objects: one per added member of
\* bookmark.tags, or else (the pair not yet processed from that side) of tag.bookmarks
Inserted(h, s) ==
    IF Count(AddedTags(h), s) > 0
    THEN Count(AddedTags(h), s)
    ELSE Count(AddedBookmarks(s), h)

\* The association table after the flush: rows are deleted for the loaded members of a
\* deleted object's collection, and inserted for the added members of a flushed one's
FlushedAssociation(slotB, slotT, delBid, delTid) ==
    [p \in BookmarkIds \X TagIds |->
        IF \/ p[1] \in delBid /\ p[2] \in DOMAIN tag
           \/ p[2] \in delTid /\
                p[1] \in {bookmark_obj[h].id :
                            h \in Range(NoloadBookmarks(p[2], bookmark,
                                        bookmark_and_bookmark_tag_association,
                                        BookmarkSlotOf))}
        THEN 0
        ELSE bookmark_and_bookmark_tag_association[p]
             + (IF p[1] \in DOMAIN slotB /\ p[2] \in DOMAIN slotT
                THEN Inserted(slotB[p[1]], slotT[p[2]])
                ELSE 0)]

\* The outcome of a commit once the tables are written: whether the constraints hold, and
\* the tables and the (expired, hence re-read) objects if they do
Committed(SB, ST, delB, delT, bid, tid, slotT, bookmark1, tag1, assoc1) ==
    [ok |-> /\ \A h \in SB : NotNullOk(h)
            /\ UniqueOk({s \in ST : tag_obj[s].id = 0})
            /\ fk_enforced => ForeignKeyOk(bookmark1, tag1, assoc1),
     bookmark |-> bookmark1,
     tag |-> tag1,
     assoc |-> assoc1,
     next_id |-> [bookmark |-> next_id.bookmark
                                 + Cardinality({h \in SB : bookmark_obj[h].id = 0}),
                  tag |-> next_id.tag + Cardinality({s \in ST : tag_obj[s].id = 0})],
     bookmark_obj |->
        [h \in BookmarkSlots |->
            IF h \in delB THEN Absent
            ELSE IF h \in SB
            THEN [id |-> bid[h],
                  title |-> bookmark1[bid[h]].title,
                  url |-> bookmark1[bid[h]].url,
                  notes |-> bookmark1[bid[h]].notes,
                  _modified |-> bookmark1[bid[h]]._modified,
                  _created |-> bookmark1[bid[h]]._created,
                  tags |-> JoinedTags(bid[h], tag1, assoc1, slotT)]
            ELSE bookmark_obj[h]],
     tag_obj |->
        [s \in TagSlots |->
            IF s \in delT THEN Absent
            ELSE IF s \in ST
            THEN [id |-> tid[s],
                  name |-> tag1[tid[s]].name,
                  bookmarks |-> NoloadBookmarks(tid[s], bookmark1, assoc1, SlotOf(bid))]
            ELSE tag_obj[s]]]

Written(SB, ST, delB, delT, bid, tid, slotB, slotT, delBid, delTid) ==
    Committed(SB, ST, delB, delT, bid, tid, slotT,
              FlushedBookmark(slotB, delBid),
              FlushedTag(slotT, delTid),
              FlushedAssociation(slotB, slotT, delBid, delTid))

Flushed(SB, ST, delB, delT, bid, tid) ==
    Written(SB, ST, delB, delT, bid, tid, SlotOf(bid), SlotOf(tid),
            {bookmark_obj[h].id : h \in delB}, {tag_obj[s].id : s \in delT})

Cascaded(c, delB, delT) ==
    Flushed(c.b \ delB, c.t \ delT, delB, delT,
            FlushedIds(c.b \ delB, bookmark_obj, next_id.bookmark),
            FlushedIds(c.t \ delT, tag_obj, next_id.tag))

\* session.commit(): flush every object the session holds (the persistent ones, those
\* added, and what the cascade reaches), delete the objects marked deleted, then expire
\* all persistent objects so that they read back what the tables hold.
Commit(addB, addT, delB, delT) == Cascaded(Session(addB, addT), delB, delT)

\* The effect of a commit on the state: all of it, or an IntegrityError and none of it
\* (the transaction is rolled back and the exception reaches the caller)
Applied(op, kind, h, c) ==
    /\ \A p \in BookmarkIds \X TagIds : c.assoc[p] <= MaxRows
    /\ IF c.ok
       THEN /\ bookmark' = c.bookmark
            /\ tag' = c.tag
            /\ bookmark_and_bookmark_tag_association' = c.assoc
            /\ next_id' = c.next_id
            /\ bookmark_obj' = c.bookmark_obj
            /\ tag_obj' = c.tag_obj
            /\ out' = Outcome(op, kind, h, "", <<>>)
       ELSE /\ out' = Outcome(op, kind, h, "IntegrityError", <<>>)
            /\ UNCHANGED <<bookmark, tag, bookmark_and_bookmark_tag_association, next_id,
                           bookmark_obj, tag_obj>>
    /\ UNCHANGED <<clock, defaults, fk_enforced>>

Apply(op, kind, h, addB, addT, delB, delT) ==
    /\ Fits(Session(addB, addT))
    /\ Applied(op, kind, h, Commit(addB, addT, delB, delT))

\* save(bookmark): db.session.add(bookmark); db.session.commit()
SaveBookmark(h) ==
    /\ h \in LiveBookmarks
    /\ Apply("save", "bookmark", h, {h}, {}, {}, {})

\* save(tag)
SaveTag(s) ==
    /\ s \in LiveTags
    /\ Apply("save", "tag", s, {}, {s}, {}, {})

\* delete(bookmark): db.session.delete(bookmark); db.session.commit()
DeleteBookmark(h) ==
    /\ h \in PersistentBookmarks
    /\ Apply("delete", "bookmark", h, {}, {}, {h}, {})

\* delete(tag)
DeleteTag(s) ==
    /\ s \in PersistentTags
    /\ Apply("delete", "tag", s, {}, {}, {}, {s})

\* get(id) of a bookmark: the row, and its tags joined in
ReloadBookmark(h) ==
    /\ h \in PersistentBookmarks
    /\ LET id == bookmark_obj[h].id
       IN  bookmark_obj' = [bookmark_obj EXCEPT ![h] =
               [id |-> id,
                title |-> bookmark[id].title,
                url |-> bookmark[id].url,
                notes |-> bookmark[id].notes,
                _modified |-> bookmark[id]._modified,
                _created |-> bookmark[id]._created,
                tags |-> JoinedTags(id, tag, bookmark_and_bookmark_tag_association,
                                    TagSlotOf)]]
    /\ out' = Outcome("reload", "bookmark", h, "", <<>>)
    /\ UNCHANGED <<clock, defaults, fk_enforced, tag_obj, bookmark, tag,
                   bookmark_and_bookmark_tag_association, next_id>>

\* get(id) of a tag: the row; its bookmarks are not loaded
ReloadTag(s) ==
    /\ s \in PersistentTags
    /\ LET id == tag_obj[s].id
       IN  tag_obj' = [tag_obj EXCEPT ![s] =
               [id |-> id,
                name |-> tag[id].name,
                bookmarks |-> NoloadBookmarks(id, bookmark,
                                  bookmark_and_bookmark_tag_association, BookmarkSlotOf)]]
    /\ out' = Outcome("reload", "tag", s, "", <<>>)
    /\ UNCHANGED <<clock, defaults, fk_enforced, bookmark_obj, bookmark, tag,
                   bookmark_and_bookmark_tag_association, next_id>>

(***************************************************************************)
(* Specification                                                           *)
(***************************************************************************)
\* The module has just been imported: the def statement of Bookmark.__init__ has
\* evaluated its default arguments, no object exists and the tables are empty.
Init ==
    /\ clock = 0
    /\ defaults = [modified |-> isoformat(now), created |-> isoformat(now)]
    /\ fk_enforced \in BOOLEAN
    /\ bookmark_obj = [h \in BookmarkSlots |-> Absent]
    /\ tag_obj = [s \in TagSlots |-> Absent]
    /\ bookmark = <<>>
    /\ tag = <<>>
    /\ bookmark_and_bookmark_tag_association = [p \in BookmarkIds \X TagIds |-> 0]
    /\ next_id = [bookmark |-> 1, tag |-> 1]
    /\ out = Outcome("import", "", 0, "", <<>>)

\* The store: objects are built with the timestamp defaults or created=None, linked,
\* saved, reloaded and deleted.
Next ==
    \/ \E h \in BookmarkSlots, created_arg \in {Default, None},
          tags_arg \in TagLists(MaxTags) :
            Bookmark(h, "t", "u", "", Default, created_arg, tags_arg)
    \/ \E s \in TagSlots, name \in Names : Tag(s, name)
    \/ \E h \in BookmarkSlots, s \in TagSlots : tags_append(h, s)
    \/ \E h \in BookmarkSlots : SaveBookmark(h)
    \/ \E s \in TagSlots : SaveTag(s)
    \/ \E h \in BookmarkSlots : DeleteBookmark(h)
    \/ \E s \in TagSlots : DeleteTag(s)
    \/ \E h \in BookmarkSlots : ReloadBookmark(h)
    \/ \E s \in TagSlots : ReloadTag(s)

Spec == Init /\ [][Next]_vars

\* Construction and serialization: one bookmark built at any time with any of the
\* timestamp arguments, its setters, its tags, and the dumps of both classes.
DumpInit == Init /\ fk_enforced

DumpNext ==
    \/ Tick
    \/ \E title \in Titles, url \in Urls, notes \in Notes,
          modified_arg \in {Default, None} \cup ModifiedInputs,
          created_arg \in {Default, None} \cup IsoInputs,
          tags_arg \in TagLists(MaxTags) :
            Bookmark(1, title, url, notes, modified_arg, created_arg, tags_arg)
    \/ Tag(1, "work")
    \/ \E s \in TagSlots : tags_append(1, s)
    \/ \E ts \in IsoInputs : created_setter(1, ts)
    \/ \E ts \in ModifiedInputs : modified_setter(1, ts)
    \/ DumpBookmark(1)
    \/ \E s \in TagSlots : DumpTag(s)
    \/ SaveBookmark(1)

DumpSpec == DumpInit /\ [][DumpNext]_vars

\* Tags and their uniqueness: tags are built, linked to a bookmark, saved directly or
\* through the bookmark's cascade, reloaded and deleted.
TagNext ==
    \/ \E created_arg \in {Default, None}, tags_arg \in TagLists(MaxTags) :
            Bookmark(1, "t", "u", "", Default, created_arg, tags_arg)
    \/ \E s \in TagSlots, name \in Names : Tag(s, name)
    \/ \E s \in TagSlots : tags_append(1, s)
    \/ SaveBookmark(1)
    \/ \E s \in TagSlots : SaveTag(s)
    \/ \E s \in TagSlots : DeleteTag(s)
    \/ \E s \in TagSlots : ReloadTag(s)

TagSpec == Init /\ [][TagNext]_vars

(***************************************************************************)
(* Properties                                                              *)
(***************************************************************************)
\* The last operation was this call, and it returned
Returned(op, kind) == out.op = op /\ out.kind = kind /\ out.err = ""

\* r is the ISO-8601 string of the instant of s, written with offset +00:00
SameInstantUtc(s, r) ==
    /\ r.sign = "+"
    /\ r.off = 0
    /\ r.hour \in 0..23
    /\ r.date * 24 + r.hour = s.date * 24 + s.hour - (IF s.sign = "-" THEN -s.off ELSE s.off)

\* C1: a Bookmark constructed without modified and created arguments has both set to
\* the current UTC time of that construction.
C1_DefaultTimestampsAreNow ==
    (Returned("Bookmark", "bookmark")
        /\ out.ret.modified = Default /\ out.ret.created = Default)
    => /\ Instant(bookmark_obj[out.h]._modified) = clock
       /\ Instant(bookmark_obj[out.h]._created) = clock

\* C2: once a tag is in a saved bookmark's tags (the association row is written),
\* the tag reloaded from the store holds that bookmark in its bookmarks collection.
C2_ReloadedTagHoldsItsBookmarks ==
    Returned("reload", "tag")
    => \A h \in PersistentBookmarks :
          bookmark_and_bookmark_tag_association[
              <<bookmark_obj[h].id, tag_obj[out.h].id>>] > 0
          => h \in Range(tag_obj[out.h].bookmarks)

\* C3: dump(Tag) has the keys id and name, and the key bookmarks exactly when the
\* tag's bookmarks list is not empty, holding then the raw list.
C3_TagDumpOmitsEmptyBookmarks ==
    Returned("dump", "tag")
    => /\ {"id", "name"} \subseteq DOMAIN out.ret
       /\ DOMAIN out.ret \subseteq {"id", "name", "bookmarks"}
       /\ "bookmarks" \in DOMAIN out.ret <=> tag_obj[out.h].bookmarks # <<>>
       /\ "bookmarks" \in DOMAIN out.ret
            => out.ret.bookmarks = ListV(tag_obj[out.h].bookmarks)

\* C4: dump(Bookmark) has the key notes exactly when notes is not the empty string and
\* the key tags exactly when the tags list is not empty; id, title, url, modified and
\* created are always present; title and url are those given at construction.
C4_BookmarkDumpOmission ==
    /\ Returned("dump", "bookmark")
       => LET b == bookmark_obj[out.h] IN
          /\ "notes" \in DOMAIN out.ret <=> b.notes # ""
          /\ "tags" \in DOMAIN out.ret <=> b.tags # <<>>
          /\ {"id", "title", "url", "modified", "created"} \subseteq DOMAIN out.ret
          /\ b.id = 0 => out.ret.id = Null
          /\ b._created = None => out.ret.created = Null
    /\ Returned("Bookmark", "bookmark")
       => /\ Bookmark_dump(bookmark_obj[out.h]).title = StrV(out.ret.title)
          /\ Bookmark_dump(bookmark_obj[out.h]).url = StrV(out.ret.url)

C4_Witness ==
    /\ Returned("dump", "bookmark")
    /\ bookmark_obj[out.h].notes = ""
    /\ bookmark_obj[out.h].tags # <<>>
    /\ bookmark_obj[out.h].title = "title"
    /\ DOMAIN out.ret = {"id", "title", "url", "modified", "created", "tags"}

\* C5: a timestamp given with a UTC offset, as created or modified, at construction or
\* through the setter, is dumped as the same instant at offset +00:00 and returned by
\* the getter as the same instant in UTC; equal instants dump identically.
C5_TimestampNormalization ==
    /\ (Returned("Bookmark", "bookmark") /\ out.ret.created \in IsoInputs)
       => /\ SameInstantUtc(out.ret.created, Bookmark_dump(bookmark_obj[out.h]).created.v)
          /\ SameInstantUtc(out.ret.created, isoformat(created(bookmark_obj[out.h])))
    /\ (Returned("Bookmark", "bookmark") /\ out.ret.modified \in IsoInputs)
       => /\ SameInstantUtc(out.ret.modified, Bookmark_dump(bookmark_obj[out.h]).modified.v)
          /\ SameInstantUtc(out.ret.modified, isoformat(modified(bookmark_obj[out.h])))
    /\ Returned("created.setter", "bookmark")
       => /\ SameInstantUtc(out.ret, Bookmark_dump(bookmark_obj[out.h]).created.v)
          /\ SameInstantUtc(out.ret, isoformat(created(bookmark_obj[out.h])))
    /\ Returned("modified.setter", "bookmark")
       => /\ SameInstantUtc(out.ret, Bookmark_dump(bookmark_obj[out.h]).modified.v)
          /\ SameInstantUtc(out.ret, isoformat(modified(bookmark_obj[out.h])))
    /\ Returned("dump", "bookmark")
       => LET b == bookmark_obj[out.h] IN
          (b._created # None /\ Instant(b._created) = Instant(b._modified))
             => out.ret.created = out.ret.modified

C5_Witness ==
    /\ Returned("dump", "bookmark")
    /\ bookmark_obj[out.h]._created = DateTime(0, 0, -5)
    /\ bookmark_obj[out.h]._modified = DateTime(0, 5, 0)
    /\ out.ret.created = IsoV(IsoString(0, 5, "+", 0))
    /\ out.ret.modified = out.ret.created

\* C6: Bookmark(title, url, created=None) is built with created unset: its dump returns
\* created = null without raising, and modified is a concrete timestamp; no dump of a
\* constructed bookmark returns modified = null.
C6_AsymmetricDefault ==
    /\ (out.op = "Bookmark" /\ out.ret.created = None /\ out.ret.modified # None)
       => LET b == bookmark_obj[out.h] IN
          /\ out.err = ""
          /\ b._created = None
          /\ ~Bookmark_dump_raises(b)
          /\ Bookmark_dump(b).created = Null
          /\ Bookmark_dump(b).modified.t = "iso"
    /\ \A h \in LiveBookmarks :
          /\ ~Bookmark_dump_raises(bookmark_obj[h])
          /\ Bookmark_dump(bookmark_obj[h]).modified # Null
    /\ (out.op = "dump" /\ out.kind = "bookmark")
       => out.err = "" /\ out.ret.modified # Null

C6_Witness ==
    /\ Returned("dump", "bookmark")
    /\ bookmark_obj[out.h]._created = None
    /\ out.ret.created = Null
    /\ out.ret.modified.t = "iso"

\* C7: save of a Bookmark constructed with created=None succeeds and stores the row
\* with created null.
C7_NullCreatedIsSaved ==
    (out.op = "save" /\ out.kind = "bookmark" /\ bookmark_obj[out.h]._created = None)
    => /\ out.err = ""
       /\ bookmark_obj[out.h].id \in DOMAIN bookmark
       /\ bookmark[bookmark_obj[out.h].id]._created = None

\* A step that is a save of a new tag whose name a persisted tag already has
SavesDuplicateName ==
    /\ out'.op = "save" /\ out'.kind = "tag"
    /\ tag_obj[out'.h] # Absent
    /\ tag_obj[out'.h].id = 0
    /\ \E id \in DOMAIN tag : tag[id].name = tag_obj[out'.h].name

\* C8: no two rows of table tag have the same name, and the save of a second Tag with
\* the name of a persisted one fails with a constraint violation and changes no row.
C8_TagNameUnique ==
    [][/\ \A i, j \in DOMAIN tag' : tag'[i].name = tag'[j].name => i = j
       /\ SavesDuplicateName
            => /\ out'.err = "IntegrityError"
               /\ UNCHANGED <<bookmark, tag, bookmark_and_bookmark_tag_association>>]_vars

C8_Witness ==
    /\ out.op = "save" /\ out.kind = "tag" /\ out.err = "IntegrityError"
    /\ tag_obj[out.h].id = 0
    /\ \E id \in DOMAIN tag : tag[id].name = tag_obj[out.h].name
    /\ \A h \in LiveBookmarks : bookmark_obj[h]._created # None
    /\ Cardinality(DOMAIN tag) = 1

\* C9: deleting a persisted Bookmark removes its association rows and changes no Tag
\* row, deleting a persisted Tag removes its association rows and changes no Bookmark
\* row, and every association row refers to an existing bookmark and an existing tag.
C9_DeleteFrame ==
    [][/\ (out'.op = "delete" /\ out'.kind = "bookmark" /\ out' # out)
            => /\ out'.err = ""
               /\ \A t \in TagIds :
                     bookmark_and_bookmark_tag_association'[
                         <<bookmark_obj[out'.h].id, t>>] = 0
               /\ tag' = tag
       /\ (out'.op = "delete" /\ out'.kind = "tag" /\ out' # out)
            => /\ out'.err = ""
               /\ \A b \in BookmarkIds :
                     bookmark_and_bookmark_tag_association'[
                         <<b, tag_obj[out'.h].id>>] = 0
               /\ bookmark' = bookmark
       /\ ForeignKeyOk(bookmark', tag', bookmark_and_bookmark_tag_association')]_vars

\* C10: no tag occurs twice in a bookmark's tags list, and the association table holds
\* at most one row for a (bookmark_id, tag_id) pair.
C10_NoDuplicateTags ==
    /\ \A h \in LiveBookmarks, s \in TagSlots : Count(bookmark_obj[h].tags, s) <= 1
    /\ \A p \in BookmarkIds \X TagIds : bookmark_and_bookmark_tag_association[p] <= 1

====
